---- MODULE Spec2Model ----
(***************************************************************************)
(* Model of averagewordlength/python_sample_solution/mapper.py : a Hadoop  *)
(* streaming mapper that reads all of standard input, splits every line on *)
(* the regular expression \W and prints, for every non-empty piece, the    *)
(* lower-cased first character, a TAB and the length of the piece.         *)
(*                                                                         *)
(* Text is a sequence of one-character strings.  A mapper instance is a    *)
(* process; the variables are functions over the set of running instances  *)
(* (one instance, or one instance per input shard plus one for the whole   *)
(* input).                                                                 *)
(***************************************************************************)
EXTENDS Integers, Sequences, FiniteSets, TLC

VARIABLES procs, stdin, lines, idx, input, ws, out, pc, exitStatus

vars == <<procs, stdin, lines, idx, input, ws, out, pc, exitStatus>>

(* ---------------------------- bounds ----------------------------------- *)

\* longest input stream (in characters) fed to a single mapper
MaxLen == 5

\* longest input stream (in characters) of a job that is also run sharded
MaxShardLen == 3

(* --------------------------- characters -------------------------------- *)

NL == "\n"

TAB == "\t"

UpperChars == <<"A","B","C","D","E","F","G","H","I","J","K","L","M",
                "N","O","P","Q","R","S","T","U","V","W","X","Y","Z">>

LowerChars == <<"a","b","c","d","e","f","g","h","i","j","k","l","m",
                "n","o","p","q","r","s","t","u","v","w","x","y","z">>

DigitChars == <<"0","1","2","3","4","5","6","7","8","9">>

Range(s) == {s[i] : i \in DOMAIN s}

\* the characters an input stream is drawn from: a lower-case letter, an
\* upper-case letter, a digit, the underscore, a blank and the line terminator
Sigma == {"a", "B", "2", "_", " ", NL}

\* the class \w of the re module for a byte string and no flags: [a-zA-Z0-9_]
ReWordClass ==
    Range(UpperChars) \cup Range(LowerChars) \cup Range(DigitChars) \cup {"_"}

\* mutant: the underscore is taken for a delimiter
NONALPHA_NoUnderscore(c) == c \notin ReWordClass \ {"_"}

\* NONALPHA = re.compile("\W") : matches exactly one character outside \w
NONALPHA(c) == c \notin ReWordClass

\* str.lower() on one character
lower(c) == IF \E i \in DOMAIN UpperChars : UpperChars[i] = c
            THEN LowerChars[CHOOSE i \in DOMAIN UpperChars : UpperChars[i] = c]
            ELSE c

RECURSIVE str(_)
\* str(n) for a non-negative integer: its decimal digits
str(n) == IF n < 10 THEN <<DigitChars[n + 1]>>
          ELSE str(n \div 10) \o <<DigitChars[(n % 10) + 1]>>

(* ------------------------------ split ---------------------------------- *)

RECURSIVE SplitFrom(_, _, _, _)
\* scan s from position i; cur is the piece being collected, acc the pieces
\* already cut off.  Every single match of NONALPHA ends a piece.
SplitFrom(s, i, cur, acc) ==
    IF i > Len(s) THEN Append(acc, cur)
    ELSE IF NONALPHA(s[i]) THEN SplitFrom(s, i + 1, <<>>, Append(acc, cur))
    ELSE SplitFrom(s, i + 1, Append(cur, s[i]), acc)

\* mutant: the pieces come out last first
split_Reversed(s) ==
    LET r == SplitFrom(s, 1, <<>>, <<>>) IN
        [i \in 1..Len(r) |-> r[Len(r) + 1 - i]]

\* mutant: split(s, 1), at most one split is made
split_MaxSplit1(s) ==
    IF \E i \in DOMAIN s : NONALPHA(s[i])
    THEN LET i == CHOOSE i \in DOMAIN s :
                      NONALPHA(s[i]) /\ \A j \in 1..(i - 1) : ~NONALPHA(s[j])
         IN  <<SubSeq(s, 1, i - 1), SubSeq(s, i + 1, Len(s))>>
    ELSE <<s>>

\* mutant: the pattern \W+, a whole run of delimiters is one split point
split_Plus(s) ==
    LET r == SplitFrom(s, 1, <<>>, <<>>)
        keep == {i \in DOMAIN r : r[i] # <<>> \/ i = 1 \/ i = Len(r)}
        nth(k) == CHOOSE i \in keep : Cardinality({j \in keep : j < i}) = k - 1
    IN  [k \in 1..Cardinality(keep) |-> r[nth(k)]]

\* NONALPHA.split(s)
split(s) == SplitFrom(s, 1, <<>>, <<>>)

\* mutant: the length test is missing
NonEmpty_Always(w) == TRUE

\* the condition of line 10
NonEmpty(w) == Len(w) > 0

\* mutant: the first character is not lower-cased
PrintLine_NoLower(w) == <<w[1], TAB>> \o str(Len(w))

\* mutant: print w[0].lower(), len(w) : a blank separates key and value
PrintLine_Comma(w) == <<lower(w[1]), " ">> \o str(Len(w))

\* the text handed to print on line 11 (print adds the line terminator)
PrintLine(w) == <<lower(w[1]), TAB>> \o str(Len(w))

(* ------------------------------ input ---------------------------------- *)

Streams(n) == UNION {[1..k -> Sigma] : k \in 0..n}

\* length of the first line of a non-empty stream, terminator included
FirstLineLen(s) ==
    IF \E i \in DOMAIN s : s[i] = NL
    THEN CHOOSE i \in DOMAIN s : s[i] = NL /\ \A j \in 1..(i - 1) : s[j] # NL
    ELSE Len(s)

\* the places where a stream may be divided into two sequences of lines
LineBoundaries(s) == {0, Len(s)} \cup {i \in DOMAIN s : s[i] = NL}

Start(ps, streamOf) ==
    /\ procs = ps
    /\ stdin = streamOf
    /\ lines = [p \in ps |-> <<>>]
    /\ idx = [p \in ps |-> 0]
    /\ input = [p \in ps |-> <<>>]
    /\ ws = [p \in ps |-> <<>>]
    /\ out = [p \in ps |-> <<>>]
    /\ pc = [p \in ps |-> "readlines"]
    /\ exitStatus = [p \in ps |-> -1]

\* one mapper over one input stream
Init == \E s \in Streams(MaxLen) : Start({"whole"}, [p \in {"whole"} |-> s])

\* a job run three times: one mapper over the whole input, and one mapper
\* over each of the two shards the input is divided into at a line boundary
InitSharded ==
    \E s \in Streams(MaxShardLen) : \E cut \in LineBoundaries(s) :
        Start({"whole", "shard1", "shard2"},
              [p \in {"whole", "shard1", "shard2"} |->
                  CASE p = "whole" -> s
                    [] p = "shard1" -> SubSeq(s, 1, cut)
                    [] p = "shard2" -> SubSeq(s, cut + 1, Len(s))])

(* ----------------------------- actions --------------------------------- *)

\* sys.stdin.readlines() takes the next line off the stream
ReadLine(p) ==
    /\ pc[p] = "readlines"
    /\ stdin[p] # <<>>
    /\ LET n == FirstLineLen(stdin[p]) IN
         /\ lines' = [lines EXCEPT ![p] = Append(@, SubSeq(stdin[p], 1, n))]
         /\ stdin' = [stdin EXCEPT ![p] = SubSeq(@, n + 1, Len(@))]
    /\ UNCHANGED <<procs, idx, input, ws, out, pc, exitStatus>>

\* mutant: the list is returned as soon as one line is there
EndOfStream_Early(p) ==
    /\ pc[p] = "readlines"
    /\ stdin[p] = <<>> \/ lines[p] # <<>>
    /\ pc' = [pc EXCEPT ![p] = "for_input"]
    /\ UNCHANGED <<procs, stdin, lines, idx, input, ws, out, exitStatus>>

\* sys.stdin.readlines() meets end-of-stream and returns the list
EndOfStream(p) ==
    /\ pc[p] = "readlines"
    /\ stdin[p] = <<>>
    /\ pc' = [pc EXCEPT ![p] = "for_input"]
    /\ UNCHANGED <<procs, stdin, lines, idx, input, ws, out, exitStatus>>

\* mutant: input += line, the text of earlier lines is kept and split again
ForInput_Accumulate(p) ==
    /\ pc[p] = "for_input"
    /\ idx[p] < Len(lines[p])
    /\ idx' = [idx EXCEPT ![p] = @ + 1]
    /\ input' = [input EXCEPT ![p] = @ \o lines[p][idx[p] + 1]]
    /\ ws' = [ws EXCEPT ![p] = split(input[p] \o lines[p][idx[p] + 1])]
    /\ pc' = [pc EXCEPT ![p] = "for_w"]
    /\ UNCHANGED <<procs, stdin, lines, out, exitStatus>>

\* for input in ...: the next line is bound and split
ForInput(p) ==
    /\ pc[p] = "for_input"
    /\ idx[p] < Len(lines[p])
    /\ idx' = [idx EXCEPT ![p] = @ + 1]
    /\ input' = [input EXCEPT ![p] = lines[p][idx[p] + 1]]
    /\ ws' = [ws EXCEPT ![p] = split(lines[p][idx[p] + 1])]
    /\ pc' = [pc EXCEPT ![p] = "for_w"]
    /\ UNCHANGED <<procs, stdin, lines, out, exitStatus>>

\* for input in ...: the list is exhausted, the script ends
ForInputDone(p) ==
    /\ pc[p] = "for_input"
    /\ idx[p] = Len(lines[p])
    /\ pc' = [pc EXCEPT ![p] = "exit"]
    /\ exitStatus' = [exitStatus EXCEPT ![p] = 0]
    /\ UNCHANGED <<procs, stdin, lines, idx, input, ws, out>>

\* for w in ...: the body for the next piece.  w[0] of an empty string
\* raises IndexError, which ends the script with status 1.
ForW(p) ==
    /\ pc[p] = "for_w"
    /\ ws[p] # <<>>
    /\ LET w == Head(ws[p]) IN
         IF NonEmpty(w) /\ Len(w) = 0
         THEN /\ pc' = [pc EXCEPT ![p] = "exit"]
              /\ exitStatus' = [exitStatus EXCEPT ![p] = 1]
              /\ UNCHANGED <<ws, out>>
         ELSE /\ out' = [out EXCEPT ![p] =
                            IF NonEmpty(w) THEN Append(@, PrintLine(w)) ELSE @]
              /\ ws' = [ws EXCEPT ![p] = Tail(@)]
              /\ UNCHANGED <<pc, exitStatus>>
    /\ UNCHANGED <<procs, stdin, lines, idx, input>>

\* for w in ...: the pieces are exhausted
ForWDone(p) ==
    /\ pc[p] = "for_w"
    /\ ws[p] = <<>>
    /\ pc' = [pc EXCEPT ![p] = "for_input"]
    /\ UNCHANGED <<procs, stdin, lines, idx, input, ws, out, exitStatus>>

Step(p) ==
    \/ ReadLine(p)
    \/ EndOfStream(p)
    \/ ForInput(p)
    \/ ForInputDone(p)
    \/ ForW(p)
    \/ ForWDone(p)

Next == \E p \in procs : Step(p)

Spec == Init /\ [][Next]_vars

SpecSharded == InitSharded /\ [][Next]_vars

\* the scheduler runs every mapper that can take a step
FairSpec == Init /\ [][Next]_vars /\ \A p \in {"whole"} : WF_vars(Step(p))

(* ------------------- vocabulary of the properties ----------------------- *)

\* the word-character class [A-Za-z0-9_]
WordClass ==
    {"A","B","C","D","E","F","G","H","I","J","K","L","M",
     "N","O","P","Q","R","S","T","U","V","W","X","Y","Z",
     "a","b","c","d","e","f","g","h","i","j","k","l","m",
     "n","o","p","q","r","s","t","u","v","w","x","y","z",
     "0","1","2","3","4","5","6","7","8","9","_"}

InWordClass(c) == c \in WordClass

\* the positions of a line where a maximal run of word characters begins
RunStarts(l) ==
    {i \in DOMAIN l : InWordClass(l[i]) /\ (i = 1 \/ ~InWordClass(l[i - 1]))}

\* the position where the run beginning at i ends
RunEnd(l, i) ==
    CHOOSE j \in i..Len(l) :
        /\ \A k \in i..j : InWordClass(l[k])
        /\ j = Len(l) \/ ~InWordClass(l[j + 1])

NumRuns(l) == Cardinality(RunStarts(l))

\* the tokens of a line: its maximal runs of word characters, left to right
Tokens(l) ==
    LET rs == RunStarts(l)
        nth(k) == CHOOSE i \in rs : Cardinality({j \in rs : j < i}) = k - 1
    IN  [k \in 1..Cardinality(rs) |->
            LET i == nth(k) IN SubSeq(l, i, RunEnd(l, i))]

AllDelimiters(l) == \A i \in DOMAIN l : ~InWordClass(l[i])

NumDelimiters(l) == Cardinality({i \in DOMAIN l : ~InWordClass(l[i])})

RECURSIVE SumRuns(_, _)
\* the number of tokens of the first k lines
SumRuns(ls, k) == IF k = 0 THEN 0 ELSE SumRuns(ls, k - 1) + NumRuns(ls[k])

\* the lower-case form of a character
LowerForm(c) ==
    IF \E i \in 1..26 : c = UpperChars[i]
    THEN LowerChars[CHOOSE i \in 1..26 : c = UpperChars[i]]
    ELSE c

IsDigit(c) == \E i \in DOMAIN DigitChars : c = DigitChars[i]

DigitValue(c) == (CHOOSE i \in DOMAIN DigitChars : c = DigitChars[i]) - 1

RECURSIVE DecimalValue(_)
\* the number a non-empty string of digits denotes
DecimalValue(ds) ==
    IF Len(ds) = 1 THEN DigitValue(ds[1])
    ELSE 10 * DecimalValue(SubSeq(ds, 1, Len(ds) - 1)) + DigitValue(ds[Len(ds)])

\* a decimal numeral: digits only, no leading zero but for "0" itself
IsDecimal(ds) ==
    /\ Len(ds) >= 1
    /\ \A i \in DOMAIN ds : IsDigit(ds[i])
    /\ Len(ds) > 1 => ds[1] # "0"

\* <key><TAB><value> read back from an output line
HasRecordShape(r) == Len(r) >= 3 /\ r[2] = TAB /\ IsDecimal(SubSeq(r, 3, Len(r)))

KeyOf(r) == r[1]

ValueOf(r) == DecimalValue(SubSeq(r, 3, Len(r)))

\* the record of token t
IsRecordOf(r, t) ==
    HasRecordShape(r) /\ KeyOf(r) = LowerForm(t[1]) /\ ValueOf(r) = Len(t)

RECURSIVE TokensUpTo(_, _)
\* the tokens of the first k lines, line by line and left to right
TokensUpTo(ls, k) ==
    IF k = 0 THEN <<>> ELSE TokensUpTo(ls, k - 1) \o Tokens(ls[k])

IsPrefix(a, b) == Len(a) <= Len(b) /\ SubSeq(b, 1, Len(a)) = a

NonEmptyOnes(ss) == SelectSeq(ss, LAMBDA x : x # <<>>)

Exited == \A p \in procs : pc[p] = "exit"

(* ------------------------------ claims ---------------------------------- *)

\* C1: whenever the mapper stands between two lines, the number of records
\* it has emitted is the number of non-empty maximal runs of [A-Za-z0-9_]
\* in the lines it has processed; hence every line contributes exactly as
\* many records as it has such runs.
C1_RecordCount ==
    \A p \in procs :
        pc[p] \in {"for_input", "exit"} =>
            Len(out[p]) = SumRuns(lines[p], idx[p])

\* a line with a leading delimiter, consecutive delimiters, a token and a
\* line terminator has been processed
C1_Witness ==
    \E p \in procs :
        /\ pc[p] = "for_input"
        /\ idx[p] >= 1
        /\ LET l == lines[p][idx[p]] IN
             /\ NumRuns(l) >= 1
             /\ l[Len(l)] = NL
             /\ ~InWordClass(l[1]) /\ ~InWordClass(l[2])

\* C2: every record emitted is the record of a token of a line read (key the
\* lower-case form of the token's first character, value the token's full
\* length), and once the mapper has ended every token has its record.
C2_KeyAndValue ==
    \A p \in procs :
        LET toks == TokensUpTo(lines[p], Len(lines[p])) IN
            /\ \A k \in DOMAIN out[p] :
                   \E j \in DOMAIN toks : IsRecordOf(out[p][k], toks[j])
            /\ pc[p] = "exit" =>
                   \A j \in DOMAIN toks :
                       \E k \in DOMAIN out[p] : IsRecordOf(out[p][k], toks[j])

\* a record of a token of several characters that begins with an upper-case
\* letter has been emitted
C2_Witness ==
    \E p \in procs : \E k \in DOMAIN out[p] :
        /\ ValueOf(out[p][k]) >= 2
        /\ KeyOf(out[p][k]) = "b"

\* C3: at every moment the output is the records of the tokens of the input
\* taken line by line and left to right within a line: it holds the records
\* of all tokens of the lines before the current one, followed by the
\* records of the leading tokens of the current line.
C3_InputOrder ==
    \A p \in procs :
        LET done == TokensUpTo(lines[p], IF idx[p] = 0 THEN 0 ELSE idx[p] - 1)
            upto == TokensUpTo(lines[p], idx[p])
        IN  /\ Len(done) <= Len(out[p]) /\ Len(out[p]) <= Len(upto)
            /\ \A k \in DOMAIN out[p] : IsRecordOf(out[p][k], upto[k])

\* two lines have been processed, the first with two tokens that have
\* different records, the second with a token of yet another record
C3_Witness ==
    \E p \in procs :
        /\ pc[p] = "exit"
        /\ Len(lines[p]) = 2
        /\ NumRuns(lines[p][1]) = 2
        /\ Len(out[p]) = 3
        /\ out[p][1] # out[p][2] /\ out[p][2] # out[p][3]

\* C4 as stated: every output line is <key><TAB><value> with the key one
\* lower-case letter and the value a decimal numeral.
C4_LowercaseKey ==
    \A p \in procs : \A k \in DOMAIN out[p] :
        /\ HasRecordShape(out[p][k])
        /\ \E i \in DOMAIN LowerChars : KeyOf(out[p][k]) = LowerChars[i]

\* C4 amended: every output line is <key><TAB><value> with the key one
\* character that is a lower-case letter, a digit or the underscore (never
\* an upper-case letter) and the value a decimal numeral of a positive
\* integer.
C4_RecordFormat ==
    \A p \in procs : \A k \in DOMAIN out[p] :
        /\ HasRecordShape(out[p][k])
        /\ InWordClass(KeyOf(out[p][k]))
        /\ ~\E i \in DOMAIN UpperChars : KeyOf(out[p][k]) = UpperChars[i]
        /\ ValueOf(out[p][k]) >= 1

\* records with a letter key, a digit key and an underscore key are emitted
C4_Witness ==
    \E p \in procs :
        /\ \E k \in DOMAIN out[p] : KeyOf(out[p][k]) = "b"
        /\ \E k \in DOMAIN out[p] : KeyOf(out[p][k]) = "2"
        /\ \E k \in DOMAIN out[p] : KeyOf(out[p][k]) = "_"

\* C5 as stated: the records of a line are emitted before the lines that
\* follow it are read: whenever lines have been read, the records of all of
\* them but the last have been emitted.
C5_Lazy ==
    \A p \in procs :
        Len(lines[p]) >= 1 =>
            Len(out[p]) >= SumRuns(lines[p], Len(lines[p]) - 1)

\* C5 amended: no record is emitted before the whole input has been read to
\* end-of-stream; the records of a line are emitted only after every line
\* that follows it has been read.
C5_EmitsAfterEndOfStream ==
    \A p \in procs :
        /\ pc[p] = "readlines" => out[p] = <<>>
        /\ out[p] # <<>> => stdin[p] = <<>>

\* a record of the first of several lines has been emitted
C5_Witness ==
    \E p \in procs :
        /\ Len(lines[p]) >= 2
        /\ idx[p] = 1
        /\ out[p] # <<>>

C7_DelimiterLines ==
    [][\A p \in procs :
          (pc[p] = "for_w" /\ AllDelimiters(input[p])) =>
              /\ out'[p] = out[p]
              /\ exitStatus'[p] = -1
              /\ pc'[p] \in {"for_w", "for_input"}
              /\ ws[p] = <<>> => pc'[p] = "for_input"]_vars

\* a line of only a terminator and a line of several delimiters have been
\* processed and the mapper went on to a later line
C7_Witness ==
    \E p \in procs :
        /\ idx[p] = 3
        /\ \E i \in 1..2 : lines[p][i] = <<NL>>
        /\ \E i \in 1..2 : Len(lines[p][i]) >= 2 /\ AllDelimiters(lines[p][i])
        /\ out[p] # <<>>

\* C8: splitting a non-empty piece that the split produced yields that piece
\* alone.
C8_SplitIdempotent ==
    \A p \in procs : \A i \in DOMAIN ws[p] :
        ws[p][i] # <<>> => split(ws[p][i]) = <<ws[p][i]>>

\* the split of a line has produced several non-empty pieces, one of them of
\* several characters
C8_Witness ==
    \E p \in procs :
        /\ Len(NonEmptyOnes(ws[p])) >= 2
        /\ \E i \in DOMAIN ws[p] : Len(ws[p][i]) >= 2

\* C9 as stated: the substrings the split yields are exactly the tokens; no
\* empty substring is among them.
C9_SplitYieldsTokensOnly ==
    [][\A p \in procs :
          (pc[p] = "for_input" /\ pc'[p] = "for_w") =>
              ws'[p] = Tokens(input'[p])]_vars

\* C9 amended: the split cuts the line at every single delimiter character,
\* so it yields one substring more than the line has delimiter characters,
\* none of which holds a delimiter; a delimiter that begins or ends the line
\* or follows another delimiter leaves an empty substring, and the non-empty
\* substrings are exactly the tokens, in order.
C9_SplitAtEveryDelimiter ==
    [][\A p \in procs :
          (pc[p] = "for_input" /\ pc'[p] = "for_w") =>
              /\ Len(ws'[p]) = NumDelimiters(input'[p]) + 1
              /\ \A i \in DOMAIN ws'[p] : \A k \in DOMAIN ws'[p][i] :
                     InWordClass(ws'[p][i][k])
              /\ NonEmptyOnes(ws'[p]) = Tokens(input'[p])]_vars

\* a line with leading, consecutive and trailing delimiters has been split
\* into empty substrings and a token
C9_Witness ==
    \E p \in procs :
        /\ pc[p] = "for_w"
        /\ Len(ws[p]) = Len(input[p])
        /\ Len(ws[p]) >= 5
        /\ ws[p][1] = <<>> /\ ws[p][Len(ws[p])] = <<>>
        /\ NonEmptyOnes(ws[p]) # <<>>

\* C10: when the mapper over the whole input and the mappers over its two
\* shards have ended, the output for the whole input is the output for the
\* first shard followed by the output for the second.
C10_Sharding ==
    (procs = {"whole", "shard1", "shard2"} /\ Exited) =>
        out["whole"] = out["shard1"] \o out["shard2"]

\* all three mappers have ended and both shards produced records
C10_Witness ==
    /\ procs = {"whole", "shard1", "shard2"}
    /\ Exited
    /\ out["shard1"] # <<>>
    /\ out["shard2"] # <<>>

====
